---- MODULE Spec2Model ----
(***************************************************************************)
(* Model of streamlit_app.py (Albaran packing list).                       *)
(*                                                                         *)
(* Two specifications share this module:                                   *)
(*   SpecFetch   - the network side of the script: fetch_albaranes, the    *)
(*                 paginated fetch_all_products with its retry loop and    *)
(*                 backup file, and the contact request;                   *)
(*   SpecExplode - build_origin_hs_lookup, explode_order_raw and           *)
(*                 explode_order_row applied to bounded documents and      *)
(*                 product listings.                                       *)
(***************************************************************************)
EXTENDS Integers, Sequences, FiniteSets, TLC

VARIABLES
    \* ---- fetch side ----
    pc,            \* position of the script: "albaranes", "products", "contact", "done", "crashed"
    listing,       \* number of products the remote listing holds
    backup,        \* products_backup.json: [exists, data]
    priorBackup,   \* the backup file as it was when the script started (history)
    page,          \* fetch_all_products: page
    attempt,       \* fetch_all_products: attempt of the retry loop
    all_products,  \* fetch_all_products: all_products
    log,           \* requests sent and sleeps taken, in order (history)
    fetched,       \* return of fetch_all_products: [state, value]
    \* ---- explode side ----
    xpc,           \* "input", "ready", "crashed"
    product_list,  \* argument of build_origin_hs_lookup
    document,      \* df.at[row_idx, "products"]
    catalog_lookup,\* [state, value]: result of build_origin_hs_lookup
    flat_df,       \* [state, value]: result of explode_order_raw
    result_df      \* [state, value]: result of explode_order_row

fetchVars == <<pc, listing, backup, priorBackup, page, attempt, all_products, log, fetched>>
explodeVars == <<xpc, product_list, document, catalog_lookup, flat_df, result_df>>
vars == <<fetchVars, explodeVars>>

(***************************************************************************)
(* Generic helpers                                                         *)
(***************************************************************************)
Min(a, b) == IF a < b THEN a ELSE b
Max(a, b) == IF a > b THEN a ELSE b

RECURSIVE Pow(_, _)
Pow(b, n) == IF n = 0 THEN 1 ELSE b * Pow(b, n - 1)

(***************************************************************************)
(* Python values.  A value is None, NaN, a number or a string.  Numbers are *)
(* exact decimals n / 10^e, kept normalised (no trailing zero digit), so    *)
(* that the arithmetic of the script (products, sums, x / 100, round) is    *)
(* exact; the binary representation error of float is not modelled.        *)
(* Strings are sequences of code points.                                   *)
(***************************************************************************)
NoneV == [k |-> "none", n |-> 0, e |-> 0, s |-> <<>>]
NaNV == [k |-> "nan", n |-> 0, e |-> 0, s |-> <<>>]
Str(s) == [k |-> "str", n |-> 0, e |-> 0, s |-> s]

RECURSIVE Num(_, _)
Num(n, e) ==
    IF e > 0 /\ n % 10 = 0
    THEN Num(n \div 10, e - 1)
    ELSE [k |-> "num", n |-> n, e |-> e, s |-> <<>>]
IntV(n) == Num(n, 0)

IsNum(v) == v.k = "num"
\* x is not None
NotNone(v) == v.k # "none"
\* bool(x)
Truthy(v) ==
    CASE v.k = "none" -> FALSE
      [] v.k = "nan" -> TRUE
      [] v.k = "num" -> v.n # 0
      [] v.k = "str" -> v.s # <<>>
\* a or b
PyOr(a, b) == IF Truthy(a) THEN a ELSE b

Mul(a, b) == Num(a.n * b.n, a.e + b.e)
Add(a, b) ==
    LET e == Max(a.e, b.e)
    IN  Num(a.n * Pow(10, e - a.e) + b.n * Pow(10, e - b.e), e)
Sub(a, b) ==
    LET e == Max(a.e, b.e)
    IN  Num(a.n * Pow(10, e - a.e) - b.n * Pow(10, e - b.e), e)
\* x / 100
Div100(a) == Num(a.n, a.e + 2)

\* round(x, nd): to the nearest multiple of 10^-nd, a tie going to the even
\* neighbour; round(nan, nd) is nan.
HalfEven(n, d) ==
    LET q == n \div d
        r == n % d
    IN  IF 2 * r > d THEN q + 1
        ELSE IF 2 * r < d THEN q
        ELSE IF q % 2 = 0 THEN q ELSE q + 1
Round(v, nd) ==
    IF v.k = "nan" THEN NaNV
    ELSE IF v.e <= nd THEN v
    ELSE Num(HalfEven(v.n, Pow(10, v.e - nd)), nd)

\* ---- strings ----
IsSpace(c) == c \in {9, 10, 11, 12, 13, 28, 29, 30, 31, 32, 133, 160}
RECURSIVE LStrip(_)
LStrip(s) == IF s # <<>> /\ IsSpace(Head(s)) THEN LStrip(Tail(s)) ELSE s
RECURSIVE RStrip(_)
RStrip(s) ==
    IF s # <<>> /\ IsSpace(s[Len(s)]) THEN RStrip(SubSeq(s, 1, Len(s) - 1)) ELSE s
\* s.strip()
Strip(s) == LStrip(RStrip(s))
\* s.lower(), for the Latin letters
LowerChar(c) ==
    IF (c >= 65 /\ c <= 90) \/ (c >= 192 /\ c <= 222 /\ c # 215) THEN c + 32 ELSE c
Lower(s) == [i \in 1..Len(s) |-> LowerChar(s[i])]

\* s < t and s <= t on str: code point by code point
RECURSIVE StrLess(_, _)
StrLess(s, t) ==
    IF t = <<>> THEN FALSE
    ELSE IF s = <<>> THEN TRUE
    ELSE IF Head(s) # Head(t) THEN Head(s) < Head(t)
    ELSE StrLess(Tail(s), Tail(t))
StrLeq(s, t) == ~StrLess(t, s)

\* str(n) for a natural number
RECURSIVE Digits(_)
Digits(n) == IF n < 10 THEN <<48 + n>> ELSE Digits(n \div 10) \o <<48 + (n % 10)>>
RECURSIVE ZeroPad(_, _)
ZeroPad(s, w) == IF Len(s) >= w THEN s ELSE ZeroPad(<<48>> \o s, w)
\* str(x) for a string, an int or a non-negative decimal
PyStr(v) ==
    CASE v.k = "str" -> v.s
      [] v.k = "none" -> <<78, 111, 110, 101>>
      [] v.k = "nan" -> <<110, 97, 110>>
      [] v.k = "num" ->
            IF v.e = 0 THEN Digits(v.n)
            ELSE Digits(v.n \div Pow(10, v.e)) \o <<46>>
                 \o ZeroPad(Digits(v.n % Pow(10, v.e)), v.e)

\* float(x): [ok, val]; ok is FALSE where float raises TypeError or
\* ValueError.  Strings are read as digits with at most one point, blanks
\* around them dropped.
IsDigit(c) == c >= 48 /\ c <= 57
RECURSIVE DigitsValue(_, _)
DigitsValue(s, acc) ==
    IF s = <<>> THEN acc ELSE DigitsValue(Tail(s), 10 * acc + (Head(s) - 48))
ParseFloat(v) ==
    CASE v.k = "num" -> [ok |-> TRUE, val |-> v]
      [] v.k = "nan" -> [ok |-> TRUE, val |-> NaNV]
      [] v.k = "none" -> [ok |-> FALSE, val |-> NoneV]
      [] v.k = "str" ->
            LET t == Strip(v.s)
                dots == {i \in 1..Len(t) : t[i] = 46}
                digs == SelectSeq(t, IsDigit)
                wellFormed ==
                    /\ Cardinality(dots) <= 1
                    /\ digs # <<>>
                    /\ \A i \in 1..Len(t) : IsDigit(t[i]) \/ t[i] = 46
                frac == IF dots = {} THEN 0 ELSE Len(t) - (CHOOSE i \in dots : TRUE)
            IN  IF wellFormed
                THEN [ok |-> TRUE, val |-> Num(DigitsValue(digs, 0), frac)]
                ELSE [ok |-> FALSE, val |-> NoneV]

\* ---- dicts: functions from the keys present to their values ----
Get(d, key) == IF key \in DOMAIN d THEN d[key] ELSE NoneV
GetD(d, key, default) == IF key \in DOMAIN d THEN d[key] ELSE default


(***************************************************************************)
(* fetch_all_products: constants                                           *)
(***************************************************************************)
PAGE_SIZE == 100
max_retries_four == 3 + 1
max_retries == 3
\* delays are kept in tenths of a second: delay_seconds = 0.3
delay_seconds == 3

\* Bound of the model: the remote listing holds at most MaxFullPages full
\* pages plus a remainder.
MaxFullPages == 2

ListingSizes ==
    {k * PAGE_SIZE + r : k \in 0..MaxFullPages, r \in {0, 1, PAGE_SIZE - 1}}

\* What the file may hold before the script runs: nothing, an empty list, or
\* an earlier snapshot (products 901 and 902, which no listing here holds).
NoFile == [exists |-> FALSE, data |-> <<>>]
BackupFiles ==
    {NoFile, [exists |-> TRUE, data |-> <<>>], [exists |-> TRUE, data |-> <<901, 902>>]}

\* The remote API: products are numbered 1..n in listing order; page p with
\* limit l holds products (p-1)*l+1 .. min(n, p*l).
ServerPage(n, p, l) ==
    LET lo == (p - 1) * l + 1
        hi == Min(n, p * l)
    IN  IF hi < lo THEN <<>> ELSE [i \in 1..(hi - lo + 1) |-> lo + i - 1]

\* One entry of the history of requests and sleeps.
Request(ep, p, l, a, ok) ==
    [kind |-> "request", ep |-> ep, page |-> p, limit |-> l, attempt |-> a,
     ok |-> ok, delay |-> 0]
Sleep(d) ==
    [kind |-> "sleep", ep |-> "", page |-> 0, limit |-> 0, attempt |-> 0,
     ok |-> TRUE, delay |-> d]

Pending == [state |-> "pending", value |-> <<>>]
Returned(v) == [state |-> "returned", value |-> v]
Raised == [state |-> "raised", value |-> <<>>]

\* time.sleep(2 ** attempt), in tenths of a second
Backoff(a) == 10 * Pow(2, a)

\* if len(chunk) < PAGE_SIZE: raise StopIteration
LastPageInclusive(chunk) == Len(chunk) <= PAGE_SIZE
LastPage(chunk) == Len(chunk) < PAGE_SIZE

\* The except block of fetch_all_products and the return after it: the file
\* it leaves and the value returned.
ExceptBlock(products, file) ==
    IF products # <<>>
    THEN [file |-> [exists |-> TRUE, data |-> products], ret |-> products]
    ELSE IF file.exists
         THEN [file |-> file, ret |-> file.data]
         ELSE [file |-> file, ret |-> <<>>]

(***************************************************************************)
(* Fetch side: actions                                                     *)
(***************************************************************************)
\* The explode side does not run under SpecFetch.
InitFetch ==
    /\ pc = "albaranes"
    /\ listing \in ListingSizes
    /\ backup \in BackupFiles
    /\ priorBackup = backup
    /\ page = 1
    /\ attempt = 0
    /\ all_products = <<>>
    /\ log = <<>>
    /\ fetched = Pending
    /\ xpc = "idle"
    /\ product_list = <<>>
    /\ document = <<>>
    /\ catalog_lookup = Pending
    /\ flat_df = Pending
    /\ result_df = Pending

\* fetch_albaranes: one requests.get; nothing catches its failure.
FetchAlbaranesOk ==
    /\ pc = "albaranes"
    /\ log' = Append(log, Request("waybill", 0, 0, 0, TRUE))
    /\ pc' = "products"
    /\ UNCHANGED <<listing, backup, priorBackup, page, attempt, all_products, fetched>>
    /\ UNCHANGED explodeVars

FetchAlbaranesFail ==
    /\ pc = "albaranes"
    /\ log' = Append(log, Request("waybill", 0, 0, 0, FALSE))
    /\ pc' = "crashed"
    /\ UNCHANGED <<listing, backup, priorBackup, page, attempt, all_products, fetched>>
    /\ UNCHANGED explodeVars

\* One pass of the try body with a request that succeeds (lines 52-72), and
\* the except block when the body raises ValueError or StopIteration.
ProductsRequestOk ==
    /\ pc = "products"
    /\ LET chunk == ServerPage(listing, page, PAGE_SIZE)
           sent == Append(log, Request("products", page, PAGE_SIZE, attempt, TRUE))
       IN  IF chunk = <<>>
           THEN \* raise ValueError
                LET e == ExceptBlock(all_products, backup)
                IN  /\ log' = sent
                    /\ backup' = e.file
                    /\ fetched' = Returned(e.ret)
                    /\ pc' = "contact"
                    /\ UNCHANGED <<page, attempt, all_products>>
           ELSE IF LastPage(chunk)
           THEN \* raise StopIteration
                LET e == ExceptBlock(all_products \o chunk, backup)
                IN  /\ log' = sent
                    /\ all_products' = all_products \o chunk
                    /\ backup' = e.file
                    /\ fetched' = Returned(e.ret)
                    /\ pc' = "contact"
                    /\ UNCHANGED <<page, attempt>>
           ELSE \* page += 1; sleep; break: the while loop starts the for loop again
                /\ log' = Append(sent, Sleep(delay_seconds))
                /\ all_products' = all_products \o chunk
                /\ page' = page + 1
                /\ attempt' = 0
                /\ UNCHANGED <<backup, fetched, pc>>
    /\ UNCHANGED <<listing, priorBackup>>
    /\ UNCHANGED explodeVars

\* One pass of the try body whose request raises RequestException (lines
\* 74-76), and the for-else (lines 78-80) with the except block when this was
\* the last attempt.
ProductsRequestFail ==
    /\ pc = "products"
    /\ LET sent == Append(Append(log, Request("products", page, PAGE_SIZE, attempt, FALSE)),
                          Sleep(Backoff(attempt)))
       IN  IF attempt + 1 < max_retries
           THEN /\ log' = sent
                /\ attempt' = attempt + 1
                /\ UNCHANGED <<backup, fetched, pc, all_products, page>>
           ELSE \* raise ConnectionError("API failed after retries")
                LET e == ExceptBlock(all_products, backup)
                IN  /\ log' = sent
                    /\ backup' = e.file
                    /\ fetched' = Returned(e.ret)
                    /\ pc' = "contact"
                    /\ UNCHANGED <<attempt, all_products, page>>
    /\ UNCHANGED <<listing, priorBackup>>
    /\ UNCHANGED explodeVars

\* No waybill carries the DocNumber typed in: no contact request is sent.
NoDocumentFound ==
    /\ pc = "contact"
    /\ pc' = "done"
    /\ UNCHANGED <<listing, backup, priorBackup, page, attempt, all_products, log, fetched>>
    /\ UNCHANGED explodeVars

\* The contact request (lines 342-343): one requests.get, raise_for_status.
FetchContactOk ==
    /\ pc = "contact"
    /\ log' = Append(log, Request("contact", 0, 0, 0, TRUE))
    /\ pc' = "done"
    /\ UNCHANGED <<listing, backup, priorBackup, page, attempt, all_products, fetched>>
    /\ UNCHANGED explodeVars

FetchContactFail ==
    /\ pc = "contact"
    /\ log' = Append(log, Request("contact", 0, 0, 0, FALSE))
    /\ pc' = "crashed"
    /\ UNCHANGED <<listing, backup, priorBackup, page, attempt, all_products, fetched>>
    /\ UNCHANGED explodeVars

NextFetch ==
    \/ FetchAlbaranesOk
    \/ FetchAlbaranesFail
    \/ ProductsRequestOk
    \/ ProductsRequestFail
    \/ NoDocumentFound
    \/ FetchContactOk
    \/ FetchContactFail

SpecFetch == InitFetch /\ [][NextFetch]_vars

(***************************************************************************)
(* build_origin_hs_lookup                                                  *)
(***************************************************************************)
\* the string literals of the script
S_origen == <<111, 114, 105, 103, 101, 110>>
S_taric == <<116, 97, 114, 105, 99>>
S_product_line == <<112, 114, 111, 100, 117, 99, 116, 32, 108, 105, 110, 101>>
S_Peso_Neto == <<80, 101, 115, 111, 32, 78, 101, 116, 111>>
S_Sin_linea_de_productos ==
    <<83, 105, 110, 32, 108, 105, 110, 101, 97, 32, 100, 101, 32,
      112, 114, 111, 100, 117, 99, 116, 111, 115>>
S_Sin_categoria == <<83, 105, 110, 32, 99, 97, 116, 101, 103, 111, 114, 237, 97>>
S_dashes == <<8212, 8212, 8212>>
S_Subtotal == [i \in 1..44 |-> 32] \o <<83, 117, 98, 116, 111, 116, 97, 108>>

EmptyDict == [x \in {} |-> x]

\* p.get("attributes", [])
AttributesOf(p) == IF "attributes" \in DOMAIN p THEN p["attributes"] ELSE <<>>

\* The loop over the attributes of one product (lines 110-118); acc holds
\* origin, hs_code, subcat and whether .strip() raised on a name that is no
\* string.
RECURSIVE ScanAttributes(_, _)
ScanAttributes(attrs, acc) ==
    IF attrs = <<>> \/ acc.raised THEN acc
    ELSE LET attr == Head(attrs)
             rawName == GetD(attr, "name", Str(<<>>))
             val == Get(attr, "value")
         IN  IF rawName.k # "str"
             THEN [acc EXCEPT !.raised = TRUE]
             ELSE LET name == Lower(Strip(rawName.s))
                  IN  ScanAttributes(Tail(attrs),
                          IF name = S_origen THEN [acc EXCEPT !.origin = val]
                          ELSE IF name = S_taric THEN [acc EXCEPT !.hs_code = val]
                          ELSE IF name = S_product_line THEN [acc EXCEPT !.subcat = val]
                          ELSE acc)

RECURSIVE BuildLookup(_, _)
BuildLookup(products, lookup) ==
    IF products = <<>> THEN Returned(lookup)
    ELSE LET p == Head(products)
             pid == PyOr(Get(p, "id"), Get(p, "productId"))
         IN  IF ~Truthy(pid) THEN BuildLookup(Tail(products), lookup)
             ELSE LET scan == ScanAttributes(AttributesOf(p),
                                 [origin |-> NoneV, hs_code |-> NoneV,
                                  subcat |-> Str(S_Sin_linea_de_productos),
                                  raised |-> FALSE])
                      entry == [Origin |-> scan.origin,
                                HSCode |-> scan.hs_code,
                                SubCat |-> scan.subcat,
                                Attributes |-> [none |-> "attributes" \notin DOMAIN p,
                                                items |-> AttributesOf(p)],
                                Weight |-> Get(p, "weight")]
                  IN  IF scan.raised THEN Raised
                      ELSE BuildLookup(Tail(products),
                               [x \in DOMAIN lookup \cup {pid} |->
                                   IF x = pid THEN entry ELSE lookup[x]])

build_origin_hs_lookup(products) == BuildLookup(products, EmptyDict)

(***************************************************************************)
(* The per-item part of explode_order_row and explode_order_raw            *)
(***************************************************************************)
\* info = catalog_lookup.get(pid, {}) and the info.get(...) calls after it
EmptyInfo ==
    [Origin |-> NoneV, HSCode |-> NoneV, SubCat |-> NoneV,
     Attributes |-> [none |-> TRUE, items |-> <<>>], Weight |-> NoneV]
CatalogInfoOrAny(lookup, pid) ==
    IF pid \in DOMAIN lookup THEN lookup[pid]
    ELSE IF DOMAIN lookup # {} THEN lookup[CHOOSE x \in DOMAIN lookup : TRUE]
    ELSE EmptyInfo
CatalogInfo(lookup, pid) ==
    IF pid \in DOMAIN lookup THEN lookup[pid] ELSE EmptyInfo

\* units, unit_price, tax, discount, subtotal and total of one item (lines
\* 134-145 and 261-273); raised where x / 100 raises TypeError.
LineAmountsUnrounded(item) ==
    LET units == PyOr(Get(item, "units"), Get(item, "quantity"))
        price == PyOr(Get(item, "price"), Get(item, "unitPrice"))
        taxPct == GetD(item, "tax", IntV(0))
        discountPct == GetD(item, "discount", IntV(0))
    IN  IF ~IsNum(taxPct) \/ ~IsNum(discountPct)
        THEN [raised |-> TRUE, units |-> NoneV, unit_price |-> NoneV,
              subtotal |-> NoneV, total |-> NoneV]
        ELSE LET tax == Add(IntV(1), Div100(taxPct))
                 discount == Sub(IntV(1), Div100(discountPct))
                 defined == NotNone(units) /\ NotNone(price)
                 unit_price == IF defined THEN Round(Mul(price, discount), 2) ELSE NoneV
                 subtotal ==
                     IF defined THEN Round(Mul(units, Mul(price, discount)), 2) ELSE NoneV
                 total == IF NotNone(subtotal) THEN Round(Mul(subtotal, tax), 2) ELSE NoneV
             IN  [raised |-> FALSE, units |-> units, unit_price |-> unit_price,
                  subtotal |-> subtotal, total |-> total]
LineAmounts(item) ==
    LET units == PyOr(Get(item, "units"), Get(item, "quantity"))
        price == PyOr(Get(item, "price"), Get(item, "unitPrice"))
        taxPct == GetD(item, "tax", IntV(0))
        discountPct == GetD(item, "discount", IntV(0))
    IN  IF ~IsNum(taxPct) \/ ~IsNum(discountPct)
        THEN [raised |-> TRUE, units |-> NoneV, unit_price |-> NoneV,
              subtotal |-> NoneV, total |-> NoneV]
        ELSE LET tax == Add(IntV(1), Div100(taxPct))
                 discount == Sub(IntV(1), Div100(discountPct))
                 unit_price ==
                     IF NotNone(units) /\ NotNone(price)
                     THEN Round(Mul(price, discount), 2) ELSE NoneV
                 subtotal ==
                     IF NotNone(units) /\ NotNone(unit_price)
                     THEN Round(Mul(units, unit_price), 2) ELSE NoneV
                 total == IF NotNone(subtotal) THEN Round(Mul(subtotal, tax), 2) ELSE NoneV
             IN  [raised |-> FALSE, units |-> units, unit_price |-> unit_price,
                  subtotal |-> subtotal, total |-> total]

\* the loop that reads "Peso Neto" from the attributes (lines 159-168, 283-292)
RECURSIVE NetWeight(_, _)
NetWeight(attributes, net_weight) ==
    IF attributes = <<>> THEN net_weight
    ELSE LET attr == Head(attributes)
             name == GetD(attr, "name", Str(<<>>))
             parsed == ParseFloat(Get(attr, "value"))
         IN  NetWeight(Tail(attributes),
                 IF parsed.ok /\ name = Str(S_Peso_Neto) THEN parsed.val ELSE net_weight)

\* a * b if a is not None and b is not None else None
TimesOrNone(a, b) == IF NotNone(a) /\ NotNone(b) THEN Mul(a, b) ELSE NoneV

\* The row of one item: [raised, subcategory, row].
LineRow(item, lookup) ==
    LET amounts == LineAmounts(item)
        info == CatalogInfo(lookup, Get(item, "productId"))
        attributes == IF info.Attributes.none THEN <<>> ELSE info.Attributes.items
        net_weight == NetWeight(attributes, NoneV)
    IN  [raised |-> amounts.raised,
         subcategory |-> info.SubCat,
         row |-> [SKU |-> Get(item, "sku"),
                  Item |-> Get(item, "name"),
                  Units |-> amounts.units,
                  UnitPrice |-> amounts.unit_price,
                  Subtotal |-> amounts.subtotal,
                  Total |-> amounts.total,
                  Origin |-> info.Origin,
                  HSCode |-> info.HSCode,
                  NetW |-> net_weight,
                  TotalW |-> TimesOrNone(net_weight, amounts.units),
                  GrossW |-> info.Weight,
                  TotalGrossW |-> TimesOrNone(info.Weight, amounts.units)]]

(***************************************************************************)
(* explode_order_raw                                                       *)
(***************************************************************************)
\* The loop body is that of explode_order_row without the grouping; the
\* gross weight read from the item (lines 260-262) is overwritten by the
\* catalog's (lines 279-280) before it is used.
RECURSIVE RawRows(_, _, _)
RawRows(items, lookup, rows) ==
    IF items = <<>> THEN Returned(rows)
    ELSE LET line == LineRow(Head(items), lookup)
         IN  IF line.raised THEN Raised
             ELSE RawRows(Tail(items), lookup, Append(rows, line.row))

explode_order_raw(items, lookup) == RawRows(items, lookup, <<>>)

(***************************************************************************)
(* explode_order_row                                                       *)
(***************************************************************************)
\* grouped.setdefault(subcategory, []).append(row_data); grouped keeps its
\* keys in the order of their first insertion
SetDefaultAppend(grouped, key, row) ==
    IF \E j \in 1..Len(grouped) : grouped[j].key = key
    THEN [j \in 1..Len(grouped) |->
             IF grouped[j].key = key
             THEN [grouped[j] EXCEPT !.products = Append(@, row)]
             ELSE grouped[j]]
    ELSE Append(grouped, [key |-> key, products |-> <<row>>])

RECURSIVE GroupRows(_, _, _)
GroupRows(items, lookup, grouped) ==
    IF items = <<>> THEN Returned(grouped)
    ELSE LET line == LineRow(Head(items), lookup)
         IN  IF line.raised THEN Raised
             ELSE GroupRows(Tail(items), lookup,
                      SetDefaultAppend(grouped, line.subcategory, line.row))

\* lines 198-201
ResolveLabel(subcat) ==
    IF subcat.k = "none" THEN S_Sin_categoria ELSE Strip(PyStr(subcat))

\* pd.to_numeric(x, errors="coerce") on one cell
ToNumeric(v) ==
    CASE v.k = "num" -> v
      [] v.k = "str" -> (IF ParseFloat(v).ok THEN ParseFloat(v).val ELSE NaNV)
      [] OTHER -> NaNV

RECURSIVE SumAll(_)
SumAll(vals) == IF vals = <<>> THEN IntV(0) ELSE Add(Head(vals), SumAll(Tail(vals)))
\* Series.sum(min_count=1): NaN cells skipped, NaN when none is left
SumMinCount1(cells) ==
    LET nums == SelectSeq([i \in 1..Len(cells) |-> ToNumeric(cells[i])], IsNum)
    IN  IF nums = <<>> THEN NaNV ELSE SumAll(nums)

Column(products, col) == [i \in 1..Len(products) |-> products[i][col]]

\* subtotals.sort(key=lambda x: x[0]): stable, ascending by str comparison
RECURSIVE InsertByLabel(_, _)
InsertByLabel(sorted, x) ==
    IF sorted = <<>> THEN <<x>>
    ELSE IF StrLess(x.subcat, Head(sorted).subcat) THEN <<x>> \o sorted
    ELSE <<Head(sorted)>> \o InsertByLabel(Tail(sorted), x)
RECURSIVE SortFrom(_, _)
SortFrom(todo, sorted) ==
    IF todo = <<>> THEN sorted ELSE SortFrom(Tail(todo), InsertByLabel(sorted, Head(todo)))
Unsorted(subtotals) == subtotals
SortByLabel(subtotals) == SortFrom(subtotals, <<>>)

BlankRow ==
    [SKU |-> Str(<<>>), Item |-> Str(<<>>), Units |-> Str(<<>>), UnitPrice |-> Str(<<>>),
     Subtotal |-> Str(<<>>), Total |-> Str(<<>>), Origin |-> Str(<<>>), HSCode |-> Str(<<>>),
     NetW |-> Str(<<>>), TotalW |-> Str(<<>>), GrossW |-> Str(<<>>), TotalGrossW |-> Str(<<>>)]
\* lines 213-226
HeaderRow(subcat) ==
    [BlankRow EXCEPT !.Item = Str(S_dashes \o <<32>> \o subcat \o <<32>> \o S_dashes)]
\* lines 229-246
SubtotalRow(products) ==
    [BlankRow EXCEPT
        !.Item = Str(S_Subtotal),
        !.Units = Round(SumMinCount1(Column(products, "Units")), 1),
        !.Subtotal = Round(SumMinCount1(Column(products, "Subtotal")), 2),
        !.Total = Round(SumMinCount1(Column(products, "Total")), 2),
        !.TotalW = Round(SumMinCount1(Column(products, "TotalW")), 3)]

RECURSIVE EmitBlocks(_, _)
EmitBlocks(subtotals, output) ==
    IF subtotals = <<>> THEN output
    ELSE LET g == Head(subtotals)
         IN  EmitBlocks(Tail(subtotals),
                 (Append(output, HeaderRow(g.subcat)) \o g.products)
                     \o <<SubtotalRow(g.products)>>)

explode_order_row(items, lookup) ==
    LET grouped == GroupRows(items, lookup, <<>>)
    IN  IF grouped.state = "raised" THEN Raised
        ELSE LET subtotals ==
                     [j \in 1..Len(grouped.value) |->
                         [subcat |-> ResolveLabel(grouped.value[j].key),
                          products |-> grouped.value[j].products,
                          total_subtotal |->
                              SumMinCount1(Column(grouped.value[j].products, "Subtotal"))]]
             IN  Returned(EmitBlocks(SortByLabel(subtotals), <<>>))


(***************************************************************************)
(* Explode side: inputs                                                    *)
(***************************************************************************)
\* Bound of the model: line items of a document with more than one line.
MaxItems == 2

\* a key the dict does not hold
AbsentV == [k |-> "absent", n |-> 0, e |-> 0, s |-> <<>>]
Field(key, choice) == IF choice = AbsentV THEN EmptyDict ELSE (key :> choice)

\* product ids "P1" .. "P6" are in the well-formed listing, "PX" in none
Pid(c) == Str(<<80, c>>)
P1 == Pid(49)
P2 == Pid(50)
P3 == Pid(51)
P4 == Pid(52)
P5 == Pid(53)
P6 == Pid(54)
PX == Pid(88)

Attr(name, value) == ("name" :> name) @@ ("value" :> value)

WellFormedListing ==
    << \* replaced below by the later product of the same id
       ("id" :> P1) @@ ("weight" :> IntV(99)) @@ ("attributes" :> <<>>),
       \* {"Origen": "ES", " TARIC ": "0901", "Product Line": "A", "Peso Neto": "1.2"}
       ("id" :> P1) @@ ("weight" :> Num(25, 1)) @@
       ("attributes" :>
           << Attr(Str(<<79, 114, 105, 103, 101, 110>>), Str(<<69, 83>>)),
              Attr(Str(<<32, 84, 65, 82, 73, 67, 32>>), Str(<<48, 57, 48, 49>>)),
              Attr(Str(<<80, 114, 111, 100, 117, 99, 116, 32, 76, 105, 110, 101>>), Str(<<65>>)),
              Attr(Str(S_Peso_Neto), Str(<<49, 46, 50>>)) >>),
       \* product line "B", a net weight that is no number ("n/a"), weight null
       ("id" :> P2) @@ ("weight" :> NoneV) @@
       ("attributes" :>
           << Attr(Str(S_product_line), Str(<<66>>)),
              Attr(Str(S_Peso_Neto), Str(<<110, 47, 97>>)) >>),
       \* keyed by productId, product line "A " (trailing blank), numeric net weight 0.5
       ("productId" :> P3) @@
       ("attributes" :>
           << Attr(Str(S_product_line), Str(<<65, 32>>)),
              Attr(Str(S_Peso_Neto), Num(5, 1)) >>),
       \* product line null
       ("id" :> P4) @@ ("weight" :> IntV(1)) @@
       ("attributes" :> << Attr(Str(S_product_line), NoneV) >>),
       \* product line "Sin categoría"
       ("id" :> P5) @@ ("weight" :> Num(15, 1)) @@
       ("attributes" :> << Attr(Str(S_product_line), Str(S_Sin_categoria)) >>),
       \* no attributes at all
       ("id" :> P6),
       \* no id: skipped
       ("weight" :> IntV(9)) @@ ("attributes" :> << Attr(Str(S_origen), Str(<<70, 82>>)) >>) >>

\* one attribute whose name is null
MalformedListing ==
    << ("id" :> P1) @@ ("weight" :> Num(25, 1)) @@
       ("attributes" :> << Attr(NoneV, Str(<<120>>)) >>) >>

ProductListings == {<<>>, WellFormedListing, MalformedListing}

UnitsChoices == {AbsentV, NoneV, IntV(0), IntV(3)}
QuantityChoices == {AbsentV, IntV(5)}
PriceChoices == {AbsentV, IntV(0), IntV(10), Num(1033, 2)}
UnitPriceChoices == {AbsentV, Num(25, 1)}
TaxChoices == {AbsentV, NoneV, IntV(21)}
DiscountChoices == {AbsentV, NoneV, IntV(10)}

MkItem(u, q, p, up, t, d, pid) ==
    Field("units", u) @@ Field("quantity", q) @@ Field("price", p) @@
    Field("unitPrice", up) @@ Field("tax", t) @@ Field("discount", d) @@
    Field("productId", pid)

\* every combination of the amount fields, for documents of one line
LineVariants ==
    {MkItem(u, q, p, up, t, d, pid) :
        u \in UnitsChoices, q \in QuantityChoices, p \in PriceChoices,
        up \in UnitPriceChoices, t \in TaxChoices, d \in DiscountChoices,
        pid \in {AbsentV, P1, PX}}

\* every product id, priced or without units, for documents of several lines
CoreItems ==
    {MkItem(u, AbsentV, Num(1033, 2), AbsentV, IntV(21), IntV(10), pid) :
        u \in {AbsentV, IntV(3)}, pid \in {AbsentV, P1, P2, P3, P4, P5, P6, PX}}

\* line i of a document carries sku "L<i>" and name "N<i>"
Numbered(items) ==
    [i \in 1..Len(items) |->
        items[i] @@ ("sku" :> Str(<<76, 48 + i>>)) @@ ("name" :> Str(<<78, 48 + i>>))]

Documents ==
    {Numbered(<<item>>) : item \in LineVariants}
    \cup UNION {{Numbered(items) : items \in [1..n -> CoreItems]} : n \in 0..MaxItems}

(***************************************************************************)
(* Explode side: actions                                                   *)
(***************************************************************************)
\* The fetch side does not run under SpecExplode.
InitExplode ==
    /\ xpc = "input"
    /\ product_list \in ProductListings
    /\ document \in Documents
    /\ catalog_lookup = Pending
    /\ flat_df = Pending
    /\ result_df = Pending
    /\ pc = "idle"
    /\ listing = 0
    /\ backup = NoFile
    /\ priorBackup = NoFile
    /\ page = 1
    /\ attempt = 0
    /\ all_products = <<>>
    /\ log = <<>>
    /\ fetched = Pending

\* catalog_lookup = build_origin_hs_lookup(all_products)
BuildCatalog ==
    /\ xpc = "input"
    /\ catalog_lookup' = build_origin_hs_lookup(product_list)
    /\ xpc' = IF catalog_lookup'.state = "raised" THEN "crashed" ELSE "ready"
    /\ UNCHANGED <<product_list, document, flat_df, result_df>>
    /\ UNCHANGED fetchVars

\* flat_df = explode_order_raw(albaran_df, row_idx, catalog_lookup=catalog_lookup)
ExplodeRaw ==
    /\ xpc = "ready"
    /\ flat_df = Pending
    /\ flat_df' = explode_order_raw(document, catalog_lookup.value)
    /\ UNCHANGED <<xpc, product_list, document, catalog_lookup, result_df>>
    /\ UNCHANGED fetchVars

\* result_df = explode_order_row(albaran_df, row_idx, catalog_lookup=catalog_lookup)
ExplodeRow ==
    /\ xpc = "ready"
    /\ result_df = Pending
    /\ result_df' = explode_order_row(document, catalog_lookup.value)
    /\ UNCHANGED <<xpc, product_list, document, catalog_lookup, flat_df>>
    /\ UNCHANGED fetchVars

NextExplode ==
    \/ BuildCatalog
    \/ ExplodeRaw
    \/ ExplodeRow

SpecExplode == InitExplode /\ [][NextExplode]_vars


(***************************************************************************)
(* Fetch side: properties                                                  *)
(***************************************************************************)
ProductRequests == SelectSeq(log, LAMBDA e : e.kind = "request" /\ e.ep = "products")
RequestsTo(ep) == SelectSeq(log, LAMBDA e : e.kind = "request" /\ e.ep = ep)
AllRequestsOk == \A i \in 1..Len(log) : log[i].ok
\* the retries of some page were used up: its attempt number max_retries - 1 failed
RetriesExhausted ==
    \E i \in 1..Len(log) :
        /\ log[i].kind = "request" /\ log[i].ep = "products"
        /\ ~log[i].ok /\ log[i].attempt = 2
SnapshotOrEmpty == IF priorBackup.exists THEN priorBackup.data ELSE <<>>
WholeListing == [i \in 1..listing |-> i]

\* C1: whenever the retries of a page are exhausted, at whatever page and
\* whether or not earlier pages succeeded, fetch_all_products returns the
\* contents of the snapshot file persisted before the call if that file exists
\* and an empty list otherwise, and it never raises.
C1_ExhaustedFallsBackToSnapshot ==
    RetriesExhausted =>
        /\ fetched.state = "returned"
        /\ fetched.value = SnapshotOrEmpty

\* C2: every page of the product listing is requested at most 3 times; a
\* failed attempt a (0, 1, 2) is followed at once by a sleep of 2^a seconds; a
\* successful attempt ends the retries of its page and the next request is
\* attempt 0 of the next page; after the third failure in a row of one page no
\* request for products is sent again; the waybill fetch and the contact fetch
\* send one request each, never a second: a failure of either ends the script.
C2_BoundedRetriesWithBackoff ==
    /\ \A p \in 1..(MaxFullPages + 2) :
           Len(SelectSeq(ProductRequests, LAMBDA e : e.page = p)) <= 3
    /\ \A i \in 1..Len(log) :
           (log[i].kind = "request" /\ log[i].ep = "products" /\ ~log[i].ok) =>
               /\ log[i].attempt \in {0, 1, 2}
               /\ i + 1 <= Len(log)
               /\ log[i + 1].kind = "sleep"
               /\ log[i + 1].delay =
                      (CASE log[i].attempt = 0 -> 10
                         [] log[i].attempt = 1 -> 20
                         [] log[i].attempt = 2 -> 40)
    /\ \A i \in 1..(Len(ProductRequests) - 1) :
           LET r == ProductRequests[i]
               n == ProductRequests[i + 1]
           IN  /\ r.ok => (n.page = r.page + 1 /\ n.attempt = 0)
               /\ ~r.ok => (n.page = r.page /\ n.attempt = r.attempt + 1)
               /\ ~(~r.ok /\ r.attempt = 2)
    /\ (ProductRequests # <<>>) =>
           (ProductRequests[1].page = 1 /\ ProductRequests[1].attempt = 0)
    /\ (RetriesExhausted => pc # "products")
    /\ Len(RequestsTo("waybill")) = (IF pc = "albaranes" THEN 0 ELSE 1)
    /\ Len(RequestsTo("contact")) <= 1
    /\ (pc \in {"albaranes", "products", "contact"} => RequestsTo("contact") = <<>>)
    /\ \A i \in 1..Len(log) :
           (log[i].kind = "request" /\ log[i].ep \in {"waybill", "contact"} /\ ~log[i].ok) =>
               (i = Len(log) /\ pc = "crashed")

\* a page was retried twice and failed for good after an earlier page succeeded
C2_Witness ==
    /\ pc = "done"
    /\ RetriesExhausted
    /\ \E i \in 1..Len(log) : log[i].kind = "request" /\ log[i].ep = "products" /\ log[i].ok
    /\ Len(RequestsTo("contact")) = 1

\* the pages asked for, when no request failed: 1, 2, 3, ... with limit 100,
\* each but the last one full, the last one short or empty
PagesInOrderUntilShort ==
    /\ \A i \in 1..Len(ProductRequests) :
           /\ ProductRequests[i].page = i
           /\ ProductRequests[i].limit = 100
           /\ (i < Len(ProductRequests)) =>
                  Len(ServerPage(listing, i, 100)) = 100
    /\ (fetched.state = "returned") =>
           /\ ProductRequests # <<>>
           /\ Len(ServerPage(listing, Len(ProductRequests), 100)) < 100
    /\ (fetched.state = "pending" /\ pc = "products") =>
           Len(ProductRequests) = page - 1

\* C3 as stated: when every request succeeds the pages are asked for in
\* order with page size 100 until the first short or empty page, and the result
\* is the concatenation of the pages received; a listing whose first page is
\* empty gives an empty result.
C3_ResultIsConcatenation ==
    AllRequestsOk =>
        /\ PagesInOrderUntilShort
        /\ (fetched.state = "returned") => (fetched.value = WholeListing)

\* C3 amended: as C3, but a listing whose first page is empty gives the
\* contents of the backup file when that file exists, and an empty result only
\* when it does not.
C3_ResultIsConcatenationOrSnapshot ==
    AllRequestsOk =>
        /\ PagesInOrderUntilShort
        /\ (fetched.state = "returned") =>
               (fetched.value = (IF listing > 0 THEN WholeListing ELSE SnapshotOrEmpty))

\* three pages were received, the last one short, and returned in order
C3_Witness ==
    /\ AllRequestsOk
    /\ fetched.state = "returned"
    /\ Len(ProductRequests) = 3
    /\ Len(fetched.value) > 2 * PAGE_SIZE

(***************************************************************************)
(* Explode side: properties                                                *)
(***************************************************************************)
\* The rows of the grouped table are told apart as the display code does, by
\* their Item text.
IsHeader(row) ==
    /\ row.SKU = Str(<<>>)
    /\ row.Item.k = "str"
    /\ Len(row.Item.s) >= 8
    /\ SubSeq(row.Item.s, 1, 4) = <<8212, 8212, 8212, 32>>
    /\ SubSeq(row.Item.s, Len(row.Item.s) - 3, Len(row.Item.s)) = <<32, 8212, 8212, 8212>>
HeaderLabel(row) == SubSeq(row.Item.s, 5, Len(row.Item.s) - 4)
IsSubtotal(row) == row.SKU = Str(<<>>) /\ row.Item = Str(S_Subtotal)
IsData(row) == ~IsHeader(row) /\ ~IsSubtotal(row)

\* the line of the document a data row shows: its SKU is "L<i>"
LineOf(row) == row.SKU.s[2] - 48
Missing(item, key) == Get(item, key) = NoneV

RawDone == flat_df.state = "returned"
RowDone == result_df.state = "returned"
out == result_df.value
HeaderIndexes == {i \in 1..Len(out) : IsHeader(out[i])}
DataIndexes == {i \in 1..Len(out) : IsData(out[i])}
\* the header row that opens the block row i lies in
BlockOf(i) == CHOOSE h \in HeaderIndexes : h <= i /\ \A g \in HeaderIndexes : g <= i => g <= h
\* the data rows between header h and its subtotal row
Members(h) == {i \in DataIndexes : BlockOf(i) = h}
\* the category the catalog gives a line, before the label is resolved
CategoryOf(item) ==
    LET pid == Get(item, "productId")
    IN  IF pid \in DOMAIN catalog_lookup.value
        THEN catalog_lookup.value[pid].SubCat ELSE NoneV
LabelOf(item) ==
    IF CategoryOf(item) = NoneV THEN S_Sin_categoria ELSE Strip(PyStr(CategoryOf(item)))

PercentsWellFormed ==
    \A n \in 1..Len(document) :
        /\ GetD(document[n], "tax", IntV(0)).k = "num"
        /\ GetD(document[n], "discount", IntV(0)).k = "num"

\* what C4 says of one data row and the line it shows
DegradedRowOk(row, item) ==
    LET pid == Get(item, "productId")
        known == pid \in DOMAIN catalog_lookup.value
        noUnits == Missing(item, "units") /\ Missing(item, "quantity")
        noPrice == Missing(item, "price") /\ Missing(item, "unitPrice")
    IN  /\ row.SKU = item["sku"]
        /\ row.Item = item["name"]
        /\ (noUnits \/ noPrice) =>
               (row.UnitPrice = NoneV /\ row.Subtotal = NoneV /\ row.Total = NoneV)
        /\ noUnits => row.Units = NoneV
        /\ (IsNum(Get(item, "units")) /\ Get(item, "units").n # 0) =>
               row.Units = item["units"]
        /\ (~known) =>
               (row.Origin = NoneV /\ row.HSCode = NoneV /\ row.NetW = NoneV
                /\ row.GrossW = NoneV)
        /\ known =>
               /\ row.Origin = catalog_lookup.value[pid].Origin
               /\ row.HSCode = catalog_lookup.value[pid].HSCode
               /\ row.GrossW = catalog_lookup.value[pid].Weight
        /\ (IsNum(row.Units) /\ IsNum(row.GrossW)) =>
               row.TotalGrossW = Mul(row.GrossW, row.Units)
        /\ (IsNum(row.Units) /\ IsNum(row.UnitPrice)) => IsNum(row.Subtotal)

\* C4: in explode_order_raw and explode_order_row a line whose productId,
\* units or price is missing, or whose productId the catalog does not know,
\* does not abort the explosion: the line is shown exactly once with every
\* field that can be computed; unit price, subtotal and total are None when
\* units or price is missing, origin and HS code are None when the product
\* is missing or unknown, and the grouped table puts such a line under the
\* label "Sin categoría".
C4_DegradedLineStillShown ==
    (xpc = "ready" /\ PercentsWellFormed) =>
        /\ flat_df.state # "raised"
        /\ result_df.state # "raised"
        /\ RawDone =>
               /\ Len(flat_df.value) = Len(document)
               /\ \A n \in 1..Len(document) :
                      DegradedRowOk(flat_df.value[n], document[n])
        /\ RowDone =>
               \A n \in 1..Len(document) :
                   /\ Cardinality({i \in DataIndexes : out[i].SKU = document[n]["sku"]}) = 1
                   /\ \A i \in DataIndexes :
                          out[i].SKU = document[n]["sku"] =>
                              /\ DegradedRowOk(out[i], document[n])
                              /\ (Get(document[n], "productId") \notin DOMAIN catalog_lookup.value)
                                     => HeaderLabel(out[BlockOf(i)]) = S_Sin_categoria

\* both tables are built for a line without units of a product the catalog
\* does not know, next to a priced line of a known product
C4_Witness ==
    /\ RawDone /\ RowDone
    /\ product_list = WellFormedListing
    /\ Len(document) = 2
    /\ \E n \in 1..2 :
           /\ Missing(document[n], "units") /\ Missing(document[n], "quantity")
           /\ Get(document[n], "productId") = PX
           /\ flat_df.value[n].Subtotal = NoneV
    /\ \E n \in 1..2 : Get(document[n], "productId") = P1
    /\ \E h \in HeaderIndexes : HeaderLabel(out[h]) = S_Sin_categoria

\* C5: no exception escapes build_origin_hs_lookup, explode_order_raw or
\* explode_order_row for per-row data issues (missing or null tax, discount,
\* units, price, productId, weight; an attribute with a null name or a value
\* that is no number): each call returns a result.
C5_NoExceptionEscapes ==
    /\ catalog_lookup.state # "raised"
    /\ flat_df.state # "raised"
    /\ result_df.state # "raised"

\* C6: the grouped table is a sequence of blocks, one per category group, in
\* ascending order of the category label; a block is one header row, the
\* data rows of the group in the order of the document's lines, and one
\* subtotal row; every line is in exactly one block, once, so the table has
\* (lines + 2 x groups) rows.
C6_BlocksInLabelOrder ==
    RowDone =>
        /\ Len(out) = Len(document) + 2 * Cardinality(HeaderIndexes)
        /\ Cardinality(HeaderIndexes) =
               Cardinality({CategoryOf(document[n]) : n \in 1..Len(document)})
        /\ Cardinality({i \in 1..Len(out) : IsSubtotal(out[i])}) = Cardinality(HeaderIndexes)
        /\ \A i \in 1..Len(out) :
               /\ IsHeader(out[i]) =>
                      /\ i = 1 \/ IsSubtotal(out[i - 1])
                      /\ i < Len(out) /\ IsData(out[i + 1])
               /\ IsData(out[i]) =>
                      /\ i > 1 /\ i < Len(out)
                      /\ IsData(out[i + 1]) \/ IsSubtotal(out[i + 1])
               /\ IsSubtotal(out[i]) =>
                      /\ i > 1 /\ IsData(out[i - 1])
                      /\ i = Len(out) \/ IsHeader(out[i + 1])
        /\ \A g, h \in HeaderIndexes :
               g < h => StrLeq(HeaderLabel(out[g]), HeaderLabel(out[h]))
        /\ \A n \in 1..Len(document) :
               Cardinality({i \in DataIndexes : out[i].SKU = document[n]["sku"]}) = 1
        /\ \A i \in DataIndexes :
               /\ LineOf(out[i]) \in 1..Len(document)
               /\ HeaderLabel(out[BlockOf(i)]) = LabelOf(document[LineOf(out[i])])
        /\ \A i, j \in DataIndexes :
               /\ (BlockOf(i) = BlockOf(j)) =
                      (CategoryOf(document[LineOf(out[i])]) = CategoryOf(document[LineOf(out[j])]))
               /\ (BlockOf(i) = BlockOf(j) /\ i < j) => LineOf(out[i]) < LineOf(out[j])

\* a line of category "B" followed by a line of category "A" comes out as
\* [header A, line 2, subtotal, header B, line 1, subtotal]
C6_Witness ==
    /\ RowDone
    /\ Len(document) = 2
    /\ CategoryOf(document[1]) = Str(<<66>>)
    /\ CategoryOf(document[2]) = Str(<<65>>)
    /\ Len(out) = 6
    /\ out[1] = HeaderRow(<<65>>) /\ out[2].SKU = document[2]["sku"] /\ IsSubtotal(out[3])
    /\ out[4] = HeaderRow(<<66>>) /\ out[5].SKU = document[1]["sku"] /\ IsSubtotal(out[6])

\* the sum of the cells that hold a number; with no such cell the aggregate
\* is no number (NaN or blank), in particular not zero
DefinedCells(h, col) == {i \in Members(h) : IsNum(out[i][col])}
RECURSIVE SumCells(_, _)
SumCells(idx, col) ==
    IF idx = {} THEN IntV(0)
    ELSE LET i == CHOOSE x \in idx : TRUE
         IN  Add(out[i][col], SumCells(idx \ {i}, col))
AggregateOk(h, cell, col, nd) ==
    IF DefinedCells(h, col) = {}
    THEN ~IsNum(cell)
    ELSE cell = Round(SumCells(DefinedCells(h, col), col), nd)
\* the subtotal row that closes the block header h opens
SubtotalIndex(h) ==
    CHOOSE j \in 1..Len(out) :
        j > h /\ IsSubtotal(out[j]) /\ \A x \in (h + 1)..(j - 1) : IsData(out[x])

\* C7: the subtotal row of each category holds, for the subtotal, the sum
\* of the subtotals of the category's data rows, undefined cells left out,
\* and is undefined (not zero) when every one of them is undefined; the same
\* rule gives its units, its total and its weight totals (net and gross).
C7_SubtotalRowSumsDefinedCells ==
    RowDone =>
        \A h \in HeaderIndexes :
            LET srow == out[SubtotalIndex(h)]
            IN  /\ AggregateOk(h, srow.Subtotal, "Subtotal", 2)
                /\ AggregateOk(h, srow.Units, "Units", 1)
                /\ AggregateOk(h, srow.Total, "Total", 2)
                /\ AggregateOk(h, srow.TotalW, "TotalW", 3)
                /\ AggregateOk(h, srow.TotalGrossW, "TotalGrossW", 3)

\* C7 without the gross weight total: what the subtotal row does hold
C7_SubtotalRowSumsWithoutGross ==
    RowDone =>
        \A h \in HeaderIndexes :
            LET srow == out[SubtotalIndex(h)]
            IN  /\ AggregateOk(h, srow.Subtotal, "Subtotal", 2)
                /\ AggregateOk(h, srow.Units, "Units", 1)
                /\ AggregateOk(h, srow.Total, "Total", 2)
                /\ AggregateOk(h, srow.TotalW, "TotalW", 3)

\* amounts in cents, computed on integers
Cents(v) == v.n * Pow(10, 2 - v.e)
PercentOf(item, key) == IF key \in DOMAIN item THEN item[key].n ELSE 0
AmountsOk(row, item) ==
    LET price == PyOr(Get(item, "price"), Get(item, "unitPrice"))
    IN  IF NotNone(row.Units) /\ NotNone(price)
        THEN LET unitCents == HalfEven(Cents(price) * (100 - PercentOf(item, "discount")), 100)
                 subCents == HalfEven(row.Units.n * unitCents, Pow(10, row.Units.e))
                 totalCents == HalfEven(subCents * (100 + PercentOf(item, "tax")), 100)
             IN  /\ row.UnitPrice = Num(unitCents, 2)
                 /\ row.Subtotal = Num(subCents, 2)
                 /\ row.Total = Num(totalCents, 2)
        ELSE row.UnitPrice = NoneV /\ row.Subtotal = NoneV /\ row.Total = NoneV

\* C8: for every line with units and price defined, in both tables, the
\* unit price is round(price * (1 - discount/100), 2), the subtotal is
\* round(units * that rounded unit price, 2) and the total is
\* round(subtotal * (1 + tax/100), 2), a discount or tax that is absent
\* counting as 0; when units or price is undefined all three are undefined.
\* Units 3, price 10, discount 10, tax 21 give 9.00, 27.00 and 32.67.
C8_AmountsFromRoundedUnitPrice ==
    /\ RawDone =>
           \A n \in 1..Len(flat_df.value) : AmountsOk(flat_df.value[n], document[n])
    /\ RowDone =>
           \A i \in DataIndexes : AmountsOk(out[i], document[LineOf(out[i])])
    /\ \A n \in 1..Len(document) :
           (/\ Get(document[n], "units") = IntV(3)
            /\ Get(document[n], "price") = IntV(10)
            /\ Get(document[n], "discount") = IntV(10)
            /\ Get(document[n], "tax") = IntV(21)) =>
               /\ RawDone =>
                      /\ flat_df.value[n].UnitPrice = IntV(9)
                      /\ flat_df.value[n].Subtotal = IntV(27)
                      /\ flat_df.value[n].Total = Num(3267, 2)
               /\ RowDone =>
                      \A i \in DataIndexes :
                          LineOf(out[i]) = n =>
                              /\ out[i].UnitPrice = IntV(9)
                              /\ out[i].Subtotal = IntV(27)
                              /\ out[i].Total = Num(3267, 2)

\* both tables hold the line units 3, price 10.33, discount 10, tax 21:
\* 9.30, 27.90 and 33.76
C8_Witness ==
    /\ RawDone /\ RowDone
    /\ Len(document) = 1
    /\ Get(document[1], "units") = IntV(3)
    /\ Get(document[1], "price") = Num(1033, 2)
    /\ Get(document[1], "discount") = IntV(10)
    /\ Get(document[1], "tax") = IntV(21)
    /\ flat_df.value[1].UnitPrice = Num(93, 1)
    /\ flat_df.value[1].Subtotal = Num(279, 1)
    /\ flat_df.value[1].Total = Num(3376, 2)
    /\ out[2].Total = Num(3376, 2)

\* the first of two source fields that is present and not null
FirstNonNull(item, first, second) ==
    IF NotNone(Get(item, first)) THEN Get(item, first) ELSE Get(item, second)
ResolutionOk(row, item) ==
    LET price == FirstNonNull(item, "price", "unitPrice")
    IN  /\ row.Units = FirstNonNull(item, "units", "quantity")
        /\ (NotNone(row.Units) /\ NotNone(price)) =>
               row.UnitPrice =
                   Num(HalfEven(Cents(price) * (100 - PercentOf(item, "discount")), 100), 2)

\* C9: units comes from the fields units and quantity, the price from price
\* and unitPrice, the first of the two that is present and not null being
\* used, the value 0 included; the second is read only when the first is
\* missing or null.
C9_FirstNonNullWins ==
    /\ RawDone =>
           \A n \in 1..Len(flat_df.value) : ResolutionOk(flat_df.value[n], document[n])
    /\ RowDone =>
           \A i \in DataIndexes : ResolutionOk(out[i], document[LineOf(out[i])])

\* C10: each resolved category label heads at most one block of the grouped
\* table, so two lines whose resolved labels are equal lie in the same block.
C10_OneBlockPerLabel ==
    RowDone =>
        \A g, h \in HeaderIndexes :
            HeaderLabel(out[g]) = HeaderLabel(out[h]) => g = h

====
